---- MODULE Spec2Model ----
(***************************************************************************)
(* Model of the all-in-be identity backend: the register and login         *)
(* handlers (internal/http/handlers), the Postgres user store              *)
(* (internal/storage/postgres), the token manager (internal/auth) and the  *)
(* response envelope (internal/http/respond).                              *)
(*                                                                         *)
(* Text is a sequence of characters; a character is one of the strings of  *)
(* Chars, with its UTF-8 width given by ByteLen.  "U+00E9" is a two-byte   *)
(* character, "0xFF" a byte that is not valid UTF-8.                       *)
(***************************************************************************)
EXTENDS Integers, Sequences, FiniteSets, TLC

VARIABLES users, seq, pc, req, local, resp, calls, nreq, arg, ret

vars == <<users, seq, pc, req, local, resp, calls, nreq, arg, ret>>

-----------------------------------------------------------------------------
(* Bounds of the model.                                                    *)

\* requests served in one behaviour
MaxRequests == 3
\* distinct bcrypt salts the entropy source can produce
NumSalts == 2
\* readings of the clock, in ticks of 1/SubSecond second
MaxNow == 1
\* ticks per second (a time.Time carries sub-second precision)
SubSecond == 2
\* longest password given to validateCredentials, in characters
MaxPwLen == 8
\* JWT_TTL_MINUTES values given to the token manager
MaxTTLMinutes == 3
\* largest user id given to Generate on its own
MaxUserID == 12

\* the concurrent request handlers (net/http serves each request on its own goroutine)
Procs == {"h1", "h2"}

-----------------------------------------------------------------------------
(* Text.                                                                   *)

Chars == {"a", "b", "c", "1", " ", "U+00E9", "0xFF"}

\* bytes of a character in UTF-8
ByteLen(c) == IF c = "U+00E9" THEN 2 ELSE 1

\* unicode.IsSpace
IsSpace(c) == c = " "

RECURSIVE TrimLeft(_)
TrimLeft(s) ==
    IF s # <<>> /\ IsSpace(Head(s)) THEN TrimLeft(Tail(s)) ELSE s

RECURSIVE TrimRight(_)
TrimRight(s) ==
    IF s # <<>> /\ IsSpace(s[Len(s)]) THEN TrimRight(SubSeq(s, 1, Len(s) - 1)) ELSE s

\* strings.TrimSpace
TrimSpace(s) == TrimRight(TrimLeft(s))

\* the builtin len of a Go string: its length in bytes
RECURSIVE len(_)
len(s) == IF s = <<>> THEN 0 ELSE ByteLen(Head(s)) + len(Tail(s))

\* utf8.RuneCountInString for valid text: its length in characters
RuneCount(s) == Len(s)

\* utf8.ValidString
ValidString(s) == \A i \in 1..Len(s) : s[i] # "0xFF"

\* a text of n copies of c
Rep(c, n) == [i \in 1..n |-> c]

\* the elements of a sequence
Range(s) == {s[i] : i \in 1..Len(s)}

\* all texts over alphabet A of at most n characters
TextsUpTo(A, n) == UNION {[1..k -> A] : k \in 0..n}

-----------------------------------------------------------------------------
(* validateCredentials.                                                    *)

MinPasswordLen == 8

ErrRequired == "username, email, and phone are required"
ErrPassword == "password must be at least 8 characters"

\* validateCredentials had it forgotten the phone
validateCredentials_NoPhone(username, email, phone, password) ==
    IF TrimSpace(username) = <<>> \/ TrimSpace(email) = <<>>
    THEN ErrRequired
    ELSE IF len(TrimSpace(password)) < MinPasswordLen \/ ~ValidString(password)
         THEN ErrPassword
         ELSE "nil"

\* the error of validateCredentials, "nil" for none
validateCredentials(username, email, phone, password) ==
    IF TrimSpace(username) = <<>> \/ TrimSpace(email) = <<>> \/ TrimSpace(phone) = <<>>
    THEN ErrRequired
    ELSE IF len(TrimSpace(password)) < MinPasswordLen \/ ~ValidString(password)
         THEN ErrPassword
         ELSE "nil"

-----------------------------------------------------------------------------
(* models.User and its JSON form.                                          *)

NormalUser == <<"p", "l", "a", "y", "e", "r">>

\* the zero value of models.User
ZeroUser ==
    [id |-> 0, username |-> <<>>, email |-> <<>>, phone |-> <<>>, role |-> <<>>,
     permissions |-> <<>>, balance |-> 0, password_hash |-> [salt |-> 0, digest |-> <<>>]]

\* json.Marshal had PasswordHash carried a json name
MarshalUser_WithHash(u) ==
    [id |-> u.id, username |-> u.username, email |-> u.email, phone |-> u.phone,
     role |-> u.role, permissions |-> u.permissions, balance |-> u.balance,
     password_hash |-> u.password_hash]

\* json.Marshal of a models.User: every field but PasswordHash (json:"-").
\* created_at is left out of the model: nothing reads it.
MarshalUser(u) ==
    [id |-> u.id, username |-> u.username, email |-> u.email, phone |-> u.phone,
     role |-> u.role, permissions |-> u.permissions, balance |-> u.balance]

\* json.Decode of a response body into a models.User: the keys of the body
\* that name a field set it, the other fields keep their zero value
DecodeUser(body) ==
    [k \in DOMAIN MarshalUser(ZeroUser) |->
        IF k \in DOMAIN body THEN body[k] ELSE MarshalUser(ZeroUser)[k]]

-----------------------------------------------------------------------------
(* bcrypt.                                                                 *)

Salts == 1..NumSalts

\* the bytes of a password bcrypt reads
BcryptMaxLen == 72

\* the part of a password bcrypt reads: its first BcryptMaxLen bytes
RECURSIVE BcryptKey(_)
BcryptKey(password) ==
    IF len(password) <= BcryptMaxLen THEN password
    ELSE BcryptKey(SubSeq(password, 1, Len(password) - 1))

\* the one-way digest of a password under a salt
Digest(salt, password) == <<salt, BcryptKey(password)>>

\* bcrypt.GenerateFromPassword with the salt the entropy source gave
GenerateFromPassword(password, salt) ==
    [salt |-> salt, digest |-> Digest(salt, password)]

\* bcrypt.CompareHashAndPassword: TRUE when it returns nil
CompareHashAndPassword(hash, password) ==
    hash.digest = Digest(hash.salt, password)

\* the results hashPassword may return for a password: the entropy source may
\* fail; a password of more than BcryptMaxLen bytes is refused by the bcrypt
\* releases that check the length and cut short by the ones that do not
HashResults(password) ==
    {[err |-> "ErrEntropy", hash |-> GenerateFromPassword(<<>>, 0)]}
    \cup (IF len(password) > BcryptMaxLen
          THEN {[err |-> "ErrPasswordTooLong", hash |-> GenerateFromPassword(<<>>, 0)]}
          ELSE {})
    \cup {[err |-> "nil", hash |-> GenerateFromPassword(password, salt)] : salt \in Salts}

-----------------------------------------------------------------------------
(* The users table and the store.                                          *)

\* the row INSERT writes: the columns of the statement and the BIGSERIAL id
InsertRow(id, user) ==
    [id |-> id, username |-> user.username, email |-> user.email,
     phone |-> user.phone, password_hash |-> user.password_hash]

\* the table had only its email been UNIQUE
UniqueViolation_EmailOnly(table, user) ==
    \E r \in table : r.email = user.email

\* the table had only its username been UNIQUE
UniqueViolation_UsernameOnly(table, user) ==
    \E r \in table : r.username = user.username

\* the UNIQUE constraints of the table: error 23505 when the row would break one
UniqueViolation(table, user) ==
    \E r \in table : r.username = user.username \/ r.email = user.email

\* scanUser of a row: the six columns selected; the other fields stay zero
scanUser(row) ==
    [ZeroUser EXCEPT !.id = row.id, !.username = row.username, !.email = row.email,
                     !.phone = row.phone, !.password_hash = row.password_hash]

\* the rows WHERE username = $1 OR email = $1 selects
MatchingRows(table, identifier) ==
    {r \in table : r.username = identifier \/ r.email = identifier}

\* FindByUsernameOrEmail: the rows LIMIT 1 may return (no ORDER BY: any one of them)
FindByUsernameOrEmail(table, identifier) == MatchingRows(table, identifier)

-----------------------------------------------------------------------------
(* The token manager.                                                      *)

SecondsPerMinute == 60

\* time.Duration(minutes) * time.Minute, in ticks
Minutes(m) == m * SecondsPerMinute * SubSecond

\* Time.Unix: whole seconds
Unix(t) == t \div SubSecond

DigitChars == <<"0", "1", "2", "3", "4", "5", "6", "7", "8", "9">>

\* fmt.Sprintf("%d", n)
RECURSIVE FormatInt(_)
FormatInt(n) ==
    IF n < 0 THEN <<"-">> \o FormatInt(-n)
    ELSE IF n < 10 THEN <<DigitChars[n + 1]>>
    ELSE FormatInt(n \div 10) \o <<DigitChars[(n % 10) + 1]>>

NewTokenManager(secret, issuer, ttl) ==
    [secret |-> secret, issuer |-> issuer, ttl |-> ttl]

\* the claims had Generate left the lifetime out of the expiry
Claims_NoTTL(t, user, now) ==
    [iss |-> t.issuer, sub |-> FormatInt(user.id), username |-> user.username,
     email |-> user.email, iat |-> Unix(now), nbf |-> Unix(now), exp |-> Unix(now)]

\* the claims Generate builds at time now
Claims(t, user, now) ==
    [iss |-> t.issuer, sub |-> FormatInt(user.id), username |-> user.username,
     email |-> user.email, iat |-> Unix(now), nbf |-> Unix(now),
     exp |-> Unix(now + t.ttl)]

\* TokenManager.Generate: the claims signed with HS256 under the secret
Generate(t, user, now) ==
    [alg |-> "HS256", claims |-> Claims(t, user, now), key |-> t.secret]

-----------------------------------------------------------------------------
(* Responses.                                                              *)

StatusOK == 200
StatusCreated == 201
StatusBadRequest == 400
StatusUnauthorized == 401
StatusMethodNotAllowed == 405
StatusConflict == 409
StatusInternalServerError == 500

\* respond.JSON: the envelope with data
RespondJSON(status, message, data) ==
    [status |-> status, body |-> [code |-> status, message |-> message, data |-> data]]

\* respond.Error: the envelope without data (omitempty)
RespondError(status, message) ==
    [status |-> status, body |-> [code |-> status, message |-> message]]

\* http.Error: a plain text body
HttpError(message, status) ==
    [status |-> status, body |-> [text |-> message]]

NoResponse == [status |-> 0, body |-> [text |-> "none"]]

-----------------------------------------------------------------------------
(* Configuration of the running server.                                    *)

DefaultTTLMinutes == 60
DefaultBalance == 1000

\* the config.Config the server is started with
Cfg ==
    [JWTSecret |-> "secret", JWTIssuer |-> "all-in-backend",
     JWTTTL |-> Minutes(DefaultTTLMinutes), InitBalance |-> DefaultBalance]

\* the TokenManager server.New builds from the configuration
tokens == NewTokenManager(Cfg.JWTSecret, Cfg.JWTIssuer, Cfg.JWTTTL)

-----------------------------------------------------------------------------
(* Requests.                                                               *)

Pw1 == Rep("a", MinPasswordLen)
Pw2 == Rep("b", MinPasswordLen)
PwShort == Rep("a", MinPasswordLen - 1)

\* a request as the handler reads it: the method, whether the body decodes,
\* and the decoded fields (dto.RegisterRequest, dto.LoginRequest)
Request(kind, method, jsonOk, username, email, phone, phoneNumber, identifier, password) ==
    [kind |-> kind, method |-> method, jsonOk |-> jsonOk, username |-> username,
     email |-> email, phone |-> phone, phoneNumber |-> phoneNumber,
     identifier |-> identifier, password |-> password]

NoRequest == Request("none", "", FALSE, <<>>, <<>>, <<>>, <<>>, <<>>, <<>>)

RegisterBody(username, email, phone, phoneNumber, password) ==
    Request("register", "POST", TRUE, username, email, phone, phoneNumber, <<>>, password)

LoginBody(identifier, password) ==
    Request("login", "POST", TRUE, <<>>, <<>>, <<>>, <<>>, identifier, password)

\* the register requests of the model
RegisterRequests ==
    {RegisterBody(u, e, <<"1", " ">>, <<>>, pw) :
        u \in {<<"a", " ">>, <<"b">>}, e \in {<<"b">>, <<" ", "c">>}, pw \in {Pw1}}
    \cup {RegisterBody(<<"b">>, <<"c">>, <<"1">>, <<>>, Pw2),
          RegisterBody(<<"a">>, <<"c">>, <<" ">>, <<"1">>, Pw1),
          RegisterBody(<<" ">>, <<"c">>, <<"1">>, <<>>, Pw1),
          RegisterBody(<<"a">>, <<>>, <<"1">>, <<>>, Pw1),
          RegisterBody(<<"a">>, <<"c">>, <<" ">>, <<" ">>, Pw1),
          RegisterBody(<<"a">>, <<"c">>, <<"1">>, <<>>, PwShort),
          Request("register", "GET", FALSE, <<>>, <<>>, <<>>, <<>>, <<>>, <<>>),
          Request("register", "POST", FALSE, <<>>, <<>>, <<>>, <<>>, <<>>, <<>>)}

\* the login requests of the model
LoginRequests ==
    {LoginBody(i, pw) : i \in {<<"a">>, <<"b", " ">>, <<"c">>}, pw \in {Pw1, Pw2}}
    \cup {LoginBody(<<" ">>, Pw1),
          LoginBody(<<"a">>, <<" ">>),
          Request("login", "GET", FALSE, <<>>, <<>>, <<>>, <<>>, <<>>, <<>>),
          Request("login", "POST", FALSE, <<>>, <<>>, <<>>, <<>>, <<>>, <<>>)}

\* what a handler keeps between its steps: the normalized phone, the password
\* hash, the user and the error the store returned, and the ids of the rows the
\* lookup matched
NoLocal ==
    [phone |-> <<>>, hash |-> ZeroUser.password_hash, user |-> ZeroUser, err |-> "nil",
     matched |-> {}]

-----------------------------------------------------------------------------
(* handleRegister.                                                         *)

normalizePhone(r) ==
    IF TrimSpace(r.phone) # <<>> THEN TrimSpace(r.phone) ELSE TrimSpace(r.phoneNumber)

\* handleRegister had it hashed the password before validating the fields
RegisterCheck_HashFirst(r) ==
    IF r.method # "POST"
    THEN [resp |-> HttpError("method not allowed", StatusMethodNotAllowed), calls |-> <<>>]
    ELSE IF ~r.jsonOk
    THEN [resp |-> RespondError(StatusBadRequest, "invalid JSON payload"), calls |-> <<>>]
    ELSE LET err == validateCredentials(r.username, r.email, normalizePhone(r), r.password)
         IN  IF err # "nil"
             THEN [resp |-> RespondError(StatusBadRequest, err),
                   calls |-> <<"hashPassword", "validateCredentials">>]
             ELSE [resp |-> NoResponse, calls |-> <<"hashPassword", "validateCredentials">>]

\* handleRegister up to validateCredentials: the response it ends with
\* (NoResponse to go on) and the calls it made
RegisterCheck(r) ==
    IF r.method # "POST"
    THEN [resp |-> HttpError("method not allowed", StatusMethodNotAllowed), calls |-> <<>>]
    ELSE IF ~r.jsonOk
    THEN [resp |-> RespondError(StatusBadRequest, "invalid JSON payload"), calls |-> <<>>]
    ELSE LET err == validateCredentials(r.username, r.email, normalizePhone(r), r.password)
         IN  IF err # "nil"
             THEN [resp |-> RespondError(StatusBadRequest, err),
                   calls |-> <<"validateCredentials">>]
             ELSE [resp |-> NoResponse, calls |-> <<"validateCredentials">>]

\* the models.User handleRegister hands to CreateUser
NewUser(r, phone, passwordHash) ==
    [ZeroUser EXCEPT !.username = TrimSpace(r.username), !.email = TrimSpace(r.email),
                     !.phone = phone, !.role = NormalUser, !.balance = Cfg.InitBalance,
                     !.password_hash = passwordHash]

\* the response to a created user
RegisterCreated(created) ==
    RespondJSON(StatusOK, "User created successfully", MarshalUser(created))

\* the response had handleRegister not told a conflict from other errors
RegisterFailed_Opaque(err) ==
    RespondError(StatusInternalServerError, "failed to create user")

\* the response to an error of CreateUser
RegisterFailed(err) ==
    IF err = "ErrAlreadyExists"
    THEN RespondError(StatusConflict, "user already exists")
    ELSE RespondError(StatusInternalServerError, "failed to create user")

handleRegister_Validate(p) ==
    /\ pc[p] = "idle"
    /\ nreq < MaxRequests
    /\ \E r \in RegisterRequests :
          LET chk == RegisterCheck(r)
          IN  /\ req' = [req EXCEPT ![p] = r]
              /\ calls' = [calls EXCEPT ![p] = chk.calls]
              /\ resp' = [resp EXCEPT ![p] = chk.resp]
              /\ pc' = [pc EXCEPT ![p] = IF chk.resp = NoResponse THEN "reg_hash" ELSE "done"]
              /\ local' = [local EXCEPT ![p] = [NoLocal EXCEPT !.phone = normalizePhone(r)]]
    /\ nreq' = nreq + 1
    /\ UNCHANGED <<users, seq, arg, ret>>

handleRegister_Hash(p) ==
    /\ pc[p] = "reg_hash"
    /\ calls' = [calls EXCEPT ![p] = Append(@, "hashPassword")]
    /\ \/ \E salt \in Salts :
             /\ local' = [local EXCEPT ![p].hash = GenerateFromPassword(req[p].password, salt)]
             /\ pc' = [pc EXCEPT ![p] = "reg_create"]
             /\ UNCHANGED resp
       \/ /\ resp' = [resp EXCEPT ![p] =
                         RespondError(StatusInternalServerError, "failed to hash password")]
          /\ pc' = [pc EXCEPT ![p] = "done"]
          /\ UNCHANGED local
    /\ UNCHANGED <<users, seq, req, nreq, arg, ret>>

handleRegister_Create(p) ==
    /\ pc[p] = "reg_create"
    /\ calls' = [calls EXCEPT ![p] = Append(@, "CreateUser")]
    /\ pc' = [pc EXCEPT ![p] = "done"]
    /\ LET user == NewUser(req[p], local[p].phone, local[p].hash)
       IN  \/ /\ resp' = [resp EXCEPT ![p] = RegisterFailed("other")]
              /\ local' = [local EXCEPT ![p].err = "other"]
              /\ UNCHANGED <<users, seq>>
           \/ /\ UniqueViolation(users, user)
              /\ resp' = [resp EXCEPT ![p] = RegisterFailed("ErrAlreadyExists")]
              /\ local' = [local EXCEPT ![p].err = "ErrAlreadyExists"]
              /\ seq' = seq + 1
              /\ UNCHANGED users
           \/ /\ ~UniqueViolation(users, user)
              /\ users' = users \cup {InsertRow(seq, user)}
              /\ seq' = seq + 1
              /\ local' = [local EXCEPT ![p].user = scanUser(InsertRow(seq, user))]
              /\ resp' = [resp EXCEPT ![p] = RegisterCreated(scanUser(InsertRow(seq, user)))]
    /\ UNCHANGED <<req, nreq, arg, ret>>

-----------------------------------------------------------------------------
(* handleLogin.                                                            *)

\* handleLogin up to the check of the fields: the response it ends with
LoginCheck(r) ==
    IF r.method # "POST"
    THEN HttpError("method not allowed", StatusMethodNotAllowed)
    ELSE IF ~r.jsonOk
    THEN RespondError(StatusBadRequest, "invalid JSON payload")
    ELSE IF TrimSpace(r.identifier) = <<>> \/ TrimSpace(r.password) = <<>>
    THEN RespondError(StatusBadRequest, "identifier and password are required")
    ELSE NoResponse

\* the response had handleLogin reported a missing user as such
LoginNotFetched_NotFound(err) ==
    IF err = "ErrNotFound"
    THEN RespondError(StatusUnauthorized, "user not found")
    ELSE RespondError(StatusInternalServerError, "failed to fetch user")

\* the response had handleLogin taken every error of the lookup for a missing user
LoginNotFetched_AllUnauthorized(err) ==
    RespondError(StatusUnauthorized, "invalid credentials")

\* the response to an error of FindByUsernameOrEmail
LoginNotFetched(err) ==
    IF err = "ErrNotFound"
    THEN RespondError(StatusUnauthorized, "invalid credentials")
    ELSE RespondError(StatusInternalServerError, "failed to fetch user")

\* the response had handleLogin issued the token without checking the password
LoginVerified_NoCheck(user, password, now) ==
    RespondJSON(StatusOK, "login successful",
                [token |-> Generate(tokens, user, now), user |-> MarshalUser(user)])

\* the response once the user is fetched: the password check, then the token
LoginVerified(user, password, now) ==
    IF ~CompareHashAndPassword(user.password_hash, password)
    THEN RespondError(StatusUnauthorized, "invalid credentials")
    ELSE RespondJSON(StatusOK, "login successful",
                     [token |-> Generate(tokens, user, now), user |-> MarshalUser(user)])

handleLogin_Validate(p) ==
    /\ pc[p] = "idle"
    /\ nreq < MaxRequests
    /\ \E r \in LoginRequests :
          /\ req' = [req EXCEPT ![p] = r]
          /\ resp' = [resp EXCEPT ![p] = LoginCheck(r)]
          /\ pc' = [pc EXCEPT ![p] = IF LoginCheck(r) = NoResponse THEN "login_find" ELSE "done"]
    /\ nreq' = nreq + 1
    /\ UNCHANGED <<users, seq, local, calls, arg, ret>>

handleLogin_Find(p) ==
    /\ pc[p] = "login_find"
    /\ calls' = [calls EXCEPT ![p] = Append(@, "FindByUsernameOrEmail")]
    /\ LET identifier == TrimSpace(req[p].identifier)
           rows == FindByUsernameOrEmail(users, identifier)
       IN  \/ /\ resp' = [resp EXCEPT ![p] = LoginNotFetched("other")]
              /\ pc' = [pc EXCEPT ![p] = "done"]
              /\ local' = [local EXCEPT ![p].err = "other"]
           \/ /\ rows = {}
              /\ resp' = [resp EXCEPT ![p] = LoginNotFetched("ErrNotFound")]
              /\ pc' = [pc EXCEPT ![p] = "done"]
              /\ local' = [local EXCEPT ![p].err = "ErrNotFound"]
           \/ \E row \in rows :
                 /\ local' = [local EXCEPT ![p].user = scanUser(row),
                                           ![p].matched = {r.id : r \in rows}]
                 /\ pc' = [pc EXCEPT ![p] = "login_verify"]
                 /\ UNCHANGED resp
    /\ UNCHANGED <<users, seq, req, nreq, arg, ret>>

\* handleLogin had it stored a fresh hash of the password on a successful login
handleLogin_Verify_Rehash(p) ==
    /\ pc[p] = "login_verify"
    /\ \E now \in 0..MaxNow :
          LET r == LoginVerified(local[p].user, req[p].password, now)
          IN  /\ resp' = [resp EXCEPT ![p] = r]
              /\ calls' = [calls EXCEPT ![p] =
                    IF r.status = StatusOK
                    THEN @ \o <<"CompareHashAndPassword", "Generate">>
                    ELSE Append(@, "CompareHashAndPassword")]
              /\ users' = IF r.status = StatusOK
                          THEN {IF u.id = local[p].user.id
                                THEN [u EXCEPT !.password_hash =
                                          GenerateFromPassword(req[p].password, 0)]
                                ELSE u : u \in users}
                          ELSE users
    /\ pc' = [pc EXCEPT ![p] = "done"]
    /\ UNCHANGED <<seq, req, local, nreq, arg, ret>>

handleLogin_Verify(p) ==
    /\ pc[p] = "login_verify"
    /\ \E now \in 0..MaxNow :
          LET r == LoginVerified(local[p].user, req[p].password, now)
          IN  /\ resp' = [resp EXCEPT ![p] = r]
              /\ calls' = [calls EXCEPT ![p] =
                    IF r.status = StatusOK
                    THEN @ \o <<"CompareHashAndPassword", "Generate">>
                    ELSE Append(@, "CompareHashAndPassword")]
    /\ pc' = [pc EXCEPT ![p] = "done"]
    /\ UNCHANGED <<users, seq, req, local, nreq, arg, ret>>

\* the response is written and the handler returns
Finish(p) ==
    /\ pc[p] = "done"
    /\ pc' = [pc EXCEPT ![p] = "idle"]
    /\ req' = [req EXCEPT ![p] = NoRequest]
    /\ local' = [local EXCEPT ![p] = NoLocal]
    /\ resp' = [resp EXCEPT ![p] = NoResponse]
    /\ calls' = [calls EXCEPT ![p] = <<>>]
    /\ UNCHANGED <<users, seq, nreq, arg, ret>>

-----------------------------------------------------------------------------
(* The server: an empty users table after migrate, every handler idle.     *)

NoCall == [fn |-> "none"]

Init ==
    /\ users = {}
    /\ seq = 1
    /\ pc = [p \in Procs |-> "idle"]
    /\ req = [p \in Procs |-> NoRequest]
    /\ local = [p \in Procs |-> NoLocal]
    /\ resp = [p \in Procs |-> NoResponse]
    /\ calls = [p \in Procs |-> <<>>]
    /\ nreq = 0
    /\ arg = NoCall
    /\ ret = NoCall

Next ==
    \E p \in Procs :
        \/ handleRegister_Validate(p)
        \/ handleRegister_Hash(p)
        \/ handleRegister_Create(p)
        \/ handleLogin_Validate(p)
        \/ handleLogin_Find(p)
        \/ handleLogin_Verify(p)
        \/ Finish(p)

Spec == Init /\ [][Next]_vars

-----------------------------------------------------------------------------
(* validateCredentials on its own: every input of ValidateInputs is given  *)
(* to it once.                                                             *)

PasswordInputs ==
    TextsUpTo({"a", " ", "U+00E9"}, MaxPwLen)
        \cup {Rep("a", n) \o <<"0xFF">> : n \in 0..MaxPwLen}

ValidateInputs ==
    [fn : {"validateCredentials"}, username : {<<"a">>, <<" ">>}, email : {<<"b">>},
     phone : {<<"1">>, <<>>}, password : PasswordInputs]

InitValidate ==
    /\ users = {}
    /\ seq = 1
    /\ pc = [p \in Procs |-> "idle"]
    /\ req = [p \in Procs |-> NoRequest]
    /\ local = [p \in Procs |-> NoLocal]
    /\ resp = [p \in Procs |-> NoResponse]
    /\ calls = [p \in Procs |-> <<>>]
    /\ nreq = 0
    /\ arg \in ValidateInputs
    /\ ret = NoCall

CallValidate ==
    /\ arg.fn = "validateCredentials"
    /\ ret = NoCall
    /\ ret' = [fn |-> "validateCredentials",
               err |-> validateCredentials(arg.username, arg.email, arg.phone, arg.password)]
    /\ UNCHANGED <<users, seq, pc, req, local, resp, calls, nreq, arg>>

NextValidate == CallValidate

SpecValidate == InitValidate /\ [][NextValidate]_vars

-----------------------------------------------------------------------------
(* Generate on its own: a token manager configured with a whole number of  *)
(* minutes, as Load yields it, issues a token for a user at a time.        *)

GenerateInputs ==
    {[fn |-> "Generate", minutes |-> m,
      t |-> NewTokenManager("secret", iss, Minutes(m)),
      user |-> [ZeroUser EXCEPT !.id = id, !.username = <<"a">>, !.email = <<"b">>],
      now |-> now] :
        m \in 1..MaxTTLMinutes, iss \in {"all-in-backend", "other"},
        id \in 0..MaxUserID, now \in 0..MaxNow}

InitToken ==
    /\ users = {}
    /\ seq = 1
    /\ pc = [p \in Procs |-> "idle"]
    /\ req = [p \in Procs |-> NoRequest]
    /\ local = [p \in Procs |-> NoLocal]
    /\ resp = [p \in Procs |-> NoResponse]
    /\ calls = [p \in Procs |-> <<>>]
    /\ nreq = 0
    /\ arg \in GenerateInputs
    /\ ret = NoCall

CallGenerate ==
    /\ arg.fn = "Generate"
    /\ ret = NoCall
    /\ ret' = [fn |-> "Generate", token |-> Generate(arg.t, arg.user, arg.now)]
    /\ UNCHANGED <<users, seq, pc, req, local, resp, calls, nreq, arg>>

NextToken == CallGenerate

SpecToken == InitToken /\ [][NextToken]_vars

-----------------------------------------------------------------------------
(* hashPassword on its own: a password is hashed twice, and another        *)
(* password is kept to be verified against the hashes.                     *)

HashInputs ==
    {Pw1, Pw2, Rep("a", MinPasswordLen + 1), Rep("U+00E9", MinPasswordLen),
     Rep("a", BcryptMaxLen), Rep("a", BcryptMaxLen + 1),
     Rep("a", BcryptMaxLen) \o <<"b">>}

InitHash ==
    /\ users = {}
    /\ seq = 1
    /\ pc = [p \in Procs |-> "idle"]
    /\ req = [p \in Procs |-> NoRequest]
    /\ local = [p \in Procs |-> NoLocal]
    /\ resp = [p \in Procs |-> NoResponse]
    /\ calls = [p \in Procs |-> <<>>]
    /\ nreq = 0
    /\ arg \in [fn : {"hashPassword"}, password : HashInputs, other : HashInputs]
    /\ ret = NoCall

CallHash ==
    /\ arg.fn = "hashPassword"
    /\ ret = NoCall
    /\ \E r1, r2 \in HashResults(arg.password) :
          ret' = [fn |-> "hashPassword", first |-> r1, second |-> r2]
    /\ UNCHANGED <<users, seq, pc, req, local, resp, calls, nreq, arg>>

NextHash == CallHash

SpecHash == InitHash /\ [][NextHash]_vars

-----------------------------------------------------------------------------
(* Properties of register and login.                                       *)

\* handler p has answered a request of the kind that reached the handler's fields
Answered(p, kind) ==
    pc[p] = "done" /\ req[p].kind = kind /\ req[p].method = "POST" /\ req[p].jsonOk

\* handler p has answered a login with its token and user
LoggedIn(p) ==
    /\ Answered(p, "login")
    /\ resp[p].status = StatusOK
    /\ "data" \in DOMAIN resp[p].body

\* C1: Register then Authenticate with the same username and password succeeds
\* with the registered id.  When the lookup of a login ran with the row of a
\* registered user in the table, the login names that user by its username and
\* gives the password the row was registered with, the login succeeds and
\* returns that row's id.
C1_RegisterThenAuthenticate ==
    \A p \in Procs : \A r \in users :
        (/\ Answered(p, "login")
         /\ r.id \in local[p].matched
         /\ r.username = TrimSpace(req[p].identifier)
         /\ r.password_hash = GenerateFromPassword(req[p].password, r.password_hash.salt))
        => (LoggedIn(p) /\ resp[p].body.data.user.id = r.id)

\* handler p has answered a register request that reached the directory and
\* got its verdict (a row or a uniqueness conflict)
Decided(p) ==
    Answered(p, "register") /\ "CreateUser" \in Range(calls[p]) /\ local[p].err # "other"

\* the ids of the rows handler p created
CreatedBy(p) == IF Decided(p) /\ local[p].err = "nil" THEN {local[p].user.id} ELSE {}

\* no row other than those p and q created holds the username or an email of
\* their requests
FreshFor(p, q) ==
    \A r \in users :
        (\/ r.username \in {TrimSpace(req[p].username), TrimSpace(req[q].username)}
         \/ r.email \in {TrimSpace(req[p].email), TrimSpace(req[q].email)})
        => r.id \in CreatedBy(p) \cup CreatedBy(q)

\* C2: of two concurrent Register requests with the same username exactly one
\* succeeds and the other reports Conflict.  Two handlers that both got the
\* directory's verdict for the same username never both succeed, and when no
\* earlier row holds their username or emails, one has the created user and
\* the other the Conflict response.
C2_ExactlyOneWins ==
    \A p, q \in Procs :
        (/\ p # q
         /\ Decided(p) /\ Decided(q)
         /\ TrimSpace(req[p].username) = TrimSpace(req[q].username))
        => /\ ~(resp[p].status = StatusOK /\ resp[q].status = StatusOK)
           /\ Cardinality(CreatedBy(p) \cup CreatedBy(q)) <= 1
           /\ FreshFor(p, q) =>
                \E w \in {p, q} : \E l \in {p, q} \ {w} :
                    /\ resp[w].status = StatusOK
                    /\ CreatedBy(w) # {}
                    /\ resp[l].status = StatusConflict

\* two handlers answered for the same fresh username at once: one won, one lost
C2_Witness ==
    \E p, q \in Procs :
        /\ p # q /\ Decided(p) /\ Decided(q) /\ FreshFor(p, q)
        /\ TrimSpace(req[p].username) = TrimSpace(req[q].username)
        /\ resp[p].status = StatusOK /\ resp[q].status = StatusConflict

\* C3: username and email are each globally unique.  No two distinct rows of
\* the users table share a username, an email or an id.
C3_UsernameEmailUnique ==
    \A r1, r2 \in users :
        r1 # r2 => /\ r1.username # r2.username
                   /\ r1.email # r2.email
                   /\ r1.id # r2.id

\* two users are registered and a third registration was refused for a conflict
C3_Witness ==
    /\ Cardinality(users) >= 2
    /\ \E p \in Procs : Decided(p) /\ local[p].err = "ErrAlreadyExists"

\* the lookup of p's login found no row
NoSuchUser(p) ==
    Answered(p, "login") /\ local[p].err = "ErrNotFound"

\* the lookup of p's login returned a row whose password is not the one given
WrongPassword(p) ==
    /\ Answered(p, "login")
    /\ local[p].matched # {}
    /\ local[p].user.password_hash.digest[2] # req[p].password

\* C4: a login for an identifier that matches no record and a login with a
\* wrong password get the identical response: 401 with the same body.
C4_UniformUnauthorized ==
    \A p \in Procs :
        (NoSuchUser(p) \/ WrongPassword(p))
        => /\ resp[p].status = StatusUnauthorized
           /\ resp[p].body = [code |-> StatusUnauthorized, message |-> "invalid credentials"]
           /\ \A q \in Procs : (NoSuchUser(q) \/ WrongPassword(q)) => resp[q] = resp[p]

\* one handler answered an unknown identifier while another answered a wrong password
C4_Witness ==
    \E p, q \in Procs : NoSuchUser(p) /\ WrongPassword(q) /\ resp[p] = resp[q]

-----------------------------------------------------------------------------

\* the user handler p is about to hand to CreateUser
Pending(p) == NewUser(req[p], local[p].phone, local[p].hash)

\* the username of u is taken and its email is not
UsernameTaken(table, u) ==
    (\E r \in table : r.username = u.username) /\ (\A r \in table : r.email # u.email)

\* the email of u is taken and its username is not
EmailTaken(table, u) ==
    (\E r \in table : r.email = u.email) /\ (\A r \in table : r.username # u.username)

Conflict == RespondError(StatusConflict, "user already exists")

\* C5: registering a used username with a fresh email, and a used email with a
\* fresh username, both yield the one Conflict response and leave the directory
\* unchanged.  Every step in which CreateUser answers (without a failure of the
\* database) for such a user ends with status 409, the body "user already
\* exists" and the users table as it was.
C5_UniformConflict ==
    [][\A p \in Procs :
          (/\ pc[p] = "reg_create" /\ pc'[p] = "done"
           /\ local'[p].err # "other"
           /\ UsernameTaken(users, Pending(p)) \/ EmailTaken(users, Pending(p)))
          => /\ resp'[p].status = StatusConflict
             /\ resp'[p].body = [code |-> StatusConflict, message |-> "user already exists"]
             /\ users' = users]_vars

\* one handler was refused for its username alone while another was refused
\* for its email alone, and both hold the same response
C5_Witness ==
    \E p, q \in Procs :
        /\ Decided(p) /\ UsernameTaken(users, Pending(p))
        /\ Decided(q) /\ EmailTaken(users, Pending(q))
        /\ resp[p] = Conflict /\ resp[q] = resp[p]

\* the phone of a register request is blank in both of its fields
BlankPhone(r) == TrimSpace(r.phone) = <<>> /\ TrimSpace(r.phoneNumber) = <<>>

\* a required field of a register request is empty after trimming
BlankField(r) ==
    TrimSpace(r.username) = <<>> \/ TrimSpace(r.email) = <<>> \/ BlankPhone(r)

\* C7: Register fails with a validation error whenever username, email or
\* phone is empty after trimming, and no row with an empty username, email or
\* phone is ever created.
C7_EmptyFieldsRejected ==
    /\ \A p \in Procs :
          (req[p].kind = "register" /\ req[p].method = "POST" /\ req[p].jsonOk
           /\ BlankField(req[p]))
          => /\ pc[p] = "done"
             /\ resp[p].status = StatusBadRequest
             /\ resp[p].body = [code |-> StatusBadRequest, message |-> ErrRequired]
    /\ \A r \in users :
          TrimSpace(r.username) # <<>> /\ TrimSpace(r.email) # <<>> /\ TrimSpace(r.phone) # <<>>

\* a request with a blank phone was refused while the table holds a user
C7_Witness ==
    /\ users # {}
    /\ \E p \in Procs :
          /\ Answered(p, "register") /\ BlankPhone(req[p])
          /\ TrimSpace(req[p].username) # <<>> /\ TrimSpace(req[p].email) # <<>>
          /\ resp[p].status = StatusBadRequest

\* handler p answered a register request with the error of validateCredentials
ValidationFailed(p) ==
    /\ Answered(p, "register")
    /\ resp[p].status = StatusBadRequest
    /\ resp[p].body.message \in {ErrRequired, ErrPassword}

\* C8: validation runs before any hashing or directory I/O.  The first call of
\* a register request is validateCredentials, a request that ended with its
\* error called neither hashPassword nor CreateUser, and the step that ends a
\* request so leaves the users table and its id sequence unchanged.
C8_ValidateFirst ==
    [][\A p \in Procs :
          /\ (req'[p].kind = "register" /\ calls'[p] # <<>>)
                => calls'[p][1] = "validateCredentials"
          /\ ValidationFailed(p)'
                => /\ calls'[p] = <<"validateCredentials">>
                   /\ pc[p] # "done" => (users' = users /\ seq' = seq)]_vars

\* a register request with a short password was refused while another
\* handler's request is past its hashing
C8_Witness ==
    \E p, q \in Procs :
        /\ ValidationFailed(p) /\ resp[p].body.message = ErrPassword
        /\ pc[q] = "reg_create" /\ calls[q] = <<"validateCredentials", "hashPassword">>

\* handler p created a user
Registered(p) ==
    Decided(p) /\ local[p].err = "nil"

\* C10: a successful POST /register answers 201 Created with the created user
\* as its body: username, email and phone as submitted and the id login
\* returns for it.
C10_Created201 ==
    \A p \in Procs :
        Registered(p)
        => /\ resp[p].status = StatusCreated
           /\ DecodeUser(resp[p].body).username = TrimSpace(req[p].username)
           /\ DecodeUser(resp[p].body).email = TrimSpace(req[p].email)
           /\ DecodeUser(resp[p].body).phone = normalizePhone(req[p])
           /\ DecodeUser(resp[p].body).id = local[p].user.id

-----------------------------------------------------------------------------
(* Properties of validateCredentials and Generate.                         *)

DigitValue(ch) == CHOOSE d \in 0..9 : DigitChars[d + 1] = ch

\* strconv.Atoi of a text of digits
RECURSIVE ParseInt(_)
ParseInt(s) ==
    IF s = <<>> THEN 0 ELSE ParseInt(SubSeq(s, 1, Len(s) - 1)) * 10 + DigitValue(s[Len(s)])

\* C9: the token Generate issues carries the user's id as its subject, the
\* configured issuer, the user's username and email, not-before equal to
\* issued-at, issued-at equal to the second of issue, and expiry equal to
\* issued-at plus the configured lifetime in seconds.
C9_TokenClaims ==
    ret.fn = "Generate"
    => LET c == ret.token.claims
       IN  /\ \A i \in 1..Len(c.sub) : c.sub[i] \in Range(DigitChars)
           /\ ParseInt(c.sub) = arg.user.id
           /\ c.iss = arg.t.issuer
           /\ c.username = arg.user.username
           /\ c.email = arg.user.email
           /\ c.iat * SubSecond <= arg.now /\ arg.now < (c.iat + 1) * SubSecond
           /\ c.nbf = c.iat
           /\ c.exp = c.iat + arg.minutes * SecondsPerMinute
           /\ ret.token.alg = "HS256" /\ ret.token.key = arg.t.secret

\* a token was issued, in the second half of a second, for a two-digit id
C9_Witness ==
    /\ ret.fn = "Generate"
    /\ arg.user.id >= 10
    /\ arg.now % SubSecond # 0
    /\ arg.minutes > 1
    /\ ret.token.claims.exp > ret.token.claims.iat

-----------------------------------------------------------------------------
(* Properties of the records and of what leaves the server.                *)

\* C11: every record a successful Register creates carries the default role
\* and the default balance: handleRegister hands both to CreateUser, and the
\* stored row and the user returned to the caller both hold them.
C11_DefaultsCarried ==
    \A p \in Procs :
        Registered(p)
        => /\ Pending(p).role = NormalUser
           /\ Pending(p).balance = Cfg.InitBalance
           /\ local[p].user.role = NormalUser
           /\ local[p].user.balance = Cfg.InitBalance
           /\ resp[p].body.data.role = NormalUser
           /\ resp[p].body.data.balance = Cfg.InitBalance
           /\ \A r \in users :
                 r.id = local[p].user.id
                 => /\ {"role", "balance"} \subseteq DOMAIN r
                    /\ r.role = NormalUser
                    /\ r.balance = Cfg.InitBalance

\* the fields of a user's JSON form that hold text
TextFields == {"username", "email", "phone", "role", "permissions"}

\* the JSON form of a user shows neither a password hash nor the password
HidesSecrets(view, password) ==
    /\ DOMAIN view \subseteq TextFields \cup {"id", "balance"}
    /\ \A k \in TextFields \cap DOMAIN view : password = <<>> \/ view[k] # password

\* the claims of a token show neither a password hash nor the password
ClaimsHideSecrets(c, password) ==
    /\ DOMAIN c = {"iss", "sub", "username", "email", "iat", "nbf", "exp"}
    /\ \A k \in {"sub", "username", "email"} : c[k] # password

\* C12: no response of register or login, success or error, contains the
\* stored password hash or the plaintext password.  An error response is a
\* status with a message (or a text); the user of a register response, and
\* the user and the token's claims of a login response, have no field for the
\* hash and no field equal to the password.
C12_NoSecretsOutward ==
    \A p \in Procs :
        pc[p] = "done"
        => /\ DOMAIN resp[p].body \in {{"text"}, {"code", "message"}, {"code", "message", "data"}}
           /\ "data" \in DOMAIN resp[p].body
              => IF req[p].kind = "register"
                 THEN HidesSecrets(resp[p].body.data, req[p].password)
                 ELSE /\ DOMAIN resp[p].body.data = {"token", "user"}
                      /\ HidesSecrets(resp[p].body.data.user, req[p].password)
                      /\ ClaimsHideSecrets(resp[p].body.data.token.claims, req[p].password)

\* one handler answered a register with its user while another answered a
\* login with its token and user
C12_Witness ==
    \E p, q \in Procs : Registered(p) /\ LoggedIn(q)

-----------------------------------------------------------------------------
(* Properties of hashPassword.                                             *)

\* C13: for every password validateCredentials accepts, hashPassword run
\* twice (the entropy source working) yields two hashes, different when their
\* salts are, that both verify against the password and against no other
\* password.
C13_HashTwice ==
    (/\ ret.fn = "hashPassword"
     /\ validateCredentials(<<"a">>, <<"b">>, <<"1">>, arg.password) = "nil"
     /\ ret.first.err # "ErrEntropy" /\ ret.second.err # "ErrEntropy")
    => /\ ret.first.err = "nil" /\ ret.second.err = "nil"
       /\ ret.first.hash.salt # ret.second.hash.salt => ret.first.hash # ret.second.hash
       /\ CompareHashAndPassword(ret.first.hash, arg.password)
       /\ CompareHashAndPassword(ret.second.hash, arg.password)
       /\ arg.other # arg.password
          => /\ ~CompareHashAndPassword(ret.first.hash, arg.other)
             /\ ~CompareHashAndPassword(ret.second.hash, arg.other)

-----------------------------------------------------------------------------
(* Properties of the directory and of the order of calls.                  *)

\* the directory call of handler p failed with an error that is neither a
\* uniqueness conflict nor not-found
DirectoryFailed(p) ==
    pc[p] = "done" /\ local[p].err = "other"

\* C14: a directory failure that is neither a uniqueness conflict (register)
\* nor not-found (login) is answered with 500 and a generic message, never
\* with Conflict, Unauthorized or success, and Generate is not called.
C14_InternalError ==
    \A p \in Procs :
        DirectoryFailed(p)
        => /\ resp[p].status = StatusInternalServerError
           /\ resp[p].body =
                  [code |-> StatusInternalServerError,
                   message |-> IF req[p].kind = "register"
                               THEN "failed to create user"
                               ELSE "failed to fetch user"]
           /\ "Generate" \notin Range(calls[p])
           /\ \A r \in users : r.id # local[p].user.id

\* the directory failed under a register and under a login at once
C14_Witness ==
    \E p, q \in Procs :
        /\ DirectoryFailed(p) /\ req[p].kind = "register"
        /\ DirectoryFailed(q) /\ req[q].kind = "login"
        /\ users # {}

\* what a login with request r can end with when its lookup runs on table:
\* the status of the response and the id of the record it is about
LoginOutcomes(table, r) ==
    {[status |-> LoginVerified(scanUser(row), r.password, 0).status, id |-> row.id] :
        row \in FindByUsernameOrEmail(table, TrimSpace(r.identifier))}

\* C15: for a fixed users table and a fixed identifier and password a login
\* has one outcome and one record: the lookup a handler is about to make can
\* return a single row only, also when the identifier is one row's username
\* and another row's email.
C15_DeterministicLogin ==
    \A p \in Procs :
        pc[p] = "login_find" => Cardinality(LoginOutcomes(users, req[p])) <= 1

\* C16: a login never changes the users table whatever it ends with, and rows
\* are only ever added, by a register that succeeds: no step removes or alters
\* a row, a step that changes the table is the CreateUser of a register that
\* answers with the one row it added, and no step of a login changes it.
C16_LoginLeavesDirectory ==
    [][/\ users \subseteq users'
       /\ users' # users
          => \E p \in Procs :
                /\ req[p].kind = "register" /\ pc[p] = "reg_create" /\ pc'[p] = "done"
                /\ resp'[p].status = StatusOK
                /\ \E row \in users' \ users :
                      /\ users' = users \cup {row}
                      /\ resp'[p].body.data = MarshalUser(scanUser(row))
       /\ \A p \in Procs :
             (pc'[p] # pc[p] /\ "login" \in {req[p].kind, req'[p].kind})
             => users' = users]_vars

\* with a user registered, one login succeeded and another was refused
C16_Witness ==
    \E p, q \in Procs :
        /\ users # {}
        /\ LoggedIn(p)
        /\ Answered(q, "login") /\ resp[q].status = StatusUnauthorized

\* the response of handler p carries a token
CarriesToken(p) ==
    /\ "data" \in DOMAIN resp[p].body
    /\ "token" \in DOMAIN resp[p].body.data

\* C18: Generate is called only after the lookup returned a record and the
\* password verified against that record's stored hash, in that order in the
\* same request; the token's subject is the id of that record, which is a row
\* of the users table; and only the response of a successful login carries a
\* token.
C18_TokenAfterVerification ==
    \A p \in Procs :
        /\ "Generate" \in Range(calls[p])
           => /\ calls[p] = <<"FindByUsernameOrEmail", "CompareHashAndPassword", "Generate">>
              /\ local[p].err = "nil"
              /\ \E r \in users :
                    /\ scanUser(r) = local[p].user
                    /\ r.id \in local[p].matched
                    /\ TrimSpace(req[p].identifier) \in {r.username, r.email}
              /\ CompareHashAndPassword(local[p].user.password_hash, req[p].password)
              /\ LoggedIn(p)
              /\ ParseInt(resp[p].body.data.token.claims.sub) = local[p].user.id
              /\ resp[p].body.data.user.id = local[p].user.id
        /\ CarriesToken(p) => (LoggedIn(p) /\ "Generate" \in Range(calls[p]))

\* one login got its token while another, for the same user, was refused it
\* after the password check
C18_Witness ==
    \E p, q \in Procs :
        /\ LoggedIn(p) /\ CarriesToken(p)
        /\ Answered(q, "login")
        /\ calls[q] = <<"FindByUsernameOrEmail", "CompareHashAndPassword">>
        /\ local[q].user.id = local[p].user.id

-----------------------------------------------------------------------------
(* config.Load.  Integers wider than the checker's are kept as their        *)
(* limbs, least significant first, with no zero limb at the top; an int64   *)
(* is its eight limbs in two's complement (a 64-bit build, where int is     *)
(* int64).                                                                  *)

LimbBase == 256
Int64Limbs == 8

\* x * k + c for a natural number x in limbs and small k >= 1, c >= 0
RECURSIVE MulAdd(_, _, _)
MulAdd(x, k, c) ==
    IF x = <<>>
    THEN IF c = 0 THEN <<>> ELSE <<c % LimbBase>> \o MulAdd(<<>>, k, c \div LimbBase)
    ELSE LET v == x[1] * k + c
         IN  <<v % LimbBase>> \o MulAdd(Tail(x), k, v \div LimbBase)

\* the value of a text of decimal digits
RECURSIVE DecimalValue(_)
DecimalValue(s) ==
    IF s = <<>> THEN <<>>
    ELSE MulAdd(DecimalValue(SubSeq(s, 1, Len(s) - 1)), 10, DigitValue(s[Len(s)]))

\* the low 64 bits of a natural number: what an int64 holds of it
Wrap64(x) == [i \in 1..Int64Limbs |-> IF i <= Len(x) THEN x[i] ELSE 0]

\* the sign bit of an int64
Negative64(v) == v[Int64Limbs] >= LimbBase \div 2

\* the magnitude is outside the range of int64
OutOfInt64(neg, mag) ==
    \/ Len(mag) > Int64Limbs
    \/ /\ Len(mag) = Int64Limbs
       /\ mag[Int64Limbs] >= LimbBase \div 2
       /\ ~(neg /\ mag = [i \in 1..Int64Limbs |-> IF i = Int64Limbs THEN LimbBase \div 2 ELSE 0])

\* strconv.Atoi: an optional sign, then decimal digits only, within int64
Atoi(s) ==
    LET signed == s # <<>> /\ s[1] \in {"+", "-"}
        neg == s # <<>> /\ s[1] = "-"
        digits == IF signed THEN Tail(s) ELSE s
    IN  IF digits = <<>> \/ \E i \in 1..Len(digits) : digits[i] \notin Range(DigitChars)
        THEN [err |-> "ErrSyntax", neg |-> FALSE, mag |-> <<>>]
        ELSE IF OutOfInt64(neg, DecimalValue(digits))
        THEN [err |-> "ErrRange", neg |-> FALSE, mag |-> <<>>]
        ELSE [err |-> "nil", neg |-> neg /\ DecimalValue(digits) # <<>>,
              mag |-> DecimalValue(digits)]

\* the nanoseconds of a natural number of minutes: minutes * 60 * 10^9
MinuteNanos(minutes) ==
    MulAdd(MulAdd(MulAdd(MulAdd(minutes, SecondsPerMinute, 0), 1000, 0), 1000, 0), 1000, 0)

\* time.Duration(ttlMinutes) * time.Minute for ttlMinutes > 0: an int64 product
DurationMinutes(ttlMinutes) == Wrap64(MinuteNanos(ttlMinutes))

\* fallback(value, def)
fallback(value, def) ==
    IF TrimSpace(value) = <<>> THEN def ELSE TrimSpace(value)

\* strings.Split(s, sep)
RECURSIVE Split(_, _)
Split(s, sep) ==
    IF \A i \in 1..Len(s) : s[i] # sep THEN <<s>>
    ELSE LET i == CHOOSE i \in 1..Len(s) : s[i] = sep /\ \A j \in 1..(i - 1) : s[j] # sep
         IN  <<SubSeq(s, 1, i - 1)>> \o Split(SubSeq(s, i + 1, Len(s)), sep)

\* parseCSV(input)
parseCSV(input) ==
    LET parts == Split(input, ",")
        out == SelectSeq([i \in 1..Len(parts) |-> TrimSpace(parts[i])], LAMBDA t : t # <<>>)
    IN  IF Len(out) = 0 THEN <<<<"*">>>> ELSE out

\* Config{}
ZeroConfig ==
    [Port |-> <<>>, DatabaseURL |-> <<>>, JWTSecret |-> <<>>, JWTIssuer |-> <<>>,
     JWTTTL |-> Wrap64(<<>>), CORSOrigins |-> <<>>]

\* the lifetime Load sets from JWT_TTL_MINUTES
LoadTTL(env) ==
    LET ttlMinutes == Atoi(fallback(env.JWT_TTL_MINUTES, <<"6", "0">>))
    IN  IF ttlMinutes.err = "nil" /\ ~ttlMinutes.neg /\ ttlMinutes.mag # <<>>
        THEN DurationMinutes(ttlMinutes.mag)
        ELSE DurationMinutes(<<DefaultTTLMinutes>>)

\* Load() under the environment env: the Config and the error it returns
Load(env) ==
    LET cfg == [Port |-> fallback(env.PORT, <<"8", "0", "8", "0">>),
                DatabaseURL |-> TrimSpace(env.DATABASE_URL),
                JWTSecret |-> TrimSpace(env.JWT_SECRET),
                JWTIssuer |-> fallback(env.JWT_ISSUER, <<"all-in-backend">>),
                JWTTTL |-> LoadTTL(env),
                CORSOrigins |-> parseCSV(fallback(env.CORS_ALLOWED_ORIGINS, <<"*">>))]
    IN  IF cfg.DatabaseURL = <<>>
        THEN [cfg |-> ZeroConfig, err |-> "DATABASE_URL is required"]
        ELSE IF cfg.JWTSecret = <<>>
        THEN [cfg |-> ZeroConfig, err |-> "JWT_SECRET is required"]
        ELSE [cfg |-> cfg, err |-> "nil"]

\* the values of JWT_TTL_MINUTES of the model (<<>> is unset)
TTLTexts ==
    {<<>>, <<" ">>, <<"x">>, <<"1", " ", "2">>, <<"0">>, <<"-", "5">>, <<"6", "0">>,
     <<"5">>, <<" ", "7", " ">>, <<"+", "5">>, <<"0", "0", "7">>,
     <<"1", "5", "3", "7", "2", "2", "8", "6", "7">>,
     <<"1", "5", "3", "7", "2", "2", "8", "6", "8">>,
     <<"1", "8", "0", "1", "4", "3", "9", "8", "5", "0", "9", "4", "8", "1", "9", "8", "4">>,
     <<"9", "2", "2", "3", "3", "7", "2", "0", "3", "6", "8", "5", "4", "7", "7", "5", "8", "0", "7">>,
     <<"9", "2", "2", "3", "3", "7", "2", "0", "3", "6", "8", "5", "4", "7", "7", "5", "8", "0", "8">>,
     <<"-", "9", "2", "2", "3", "3", "7", "2", "0", "3", "6", "8", "5", "4", "7", "7", "5", "8", "0", "8">>}

\* the environments of the model
Environments ==
    [PORT : {<<>>, <<"9">>},
     DATABASE_URL : {<<>>, <<" ">>, <<"d">>},
     JWT_SECRET : {<<>>, <<" ">>, <<"s">>, <<" ", "s", " ">>},
     JWT_ISSUER : {<<>>, <<"i">>},
     JWT_TTL_MINUTES : TTLTexts,
     CORS_ALLOWED_ORIGINS : {<<>>, <<"a", ",", " ", ",", "b">>}]

InitConfig ==
    /\ users = {}
    /\ seq = 1
    /\ pc = [p \in Procs |-> "idle"]
    /\ req = [p \in Procs |-> NoRequest]
    /\ local = [p \in Procs |-> NoLocal]
    /\ resp = [p \in Procs |-> NoResponse]
    /\ calls = [p \in Procs |-> <<>>]
    /\ nreq = 0
    /\ arg \in [fn : {"Load"}, env : Environments]
    /\ ret = NoCall

CallLoad ==
    /\ arg.fn = "Load"
    /\ ret = NoCall
    /\ ret' = [fn |-> "Load", cfg |-> Load(arg.env).cfg, err |-> Load(arg.env).err]
    /\ UNCHANGED <<users, seq, pc, req, local, resp, calls, nreq, arg>>

NextConfig == CallLoad

SpecConfig == InitConfig /\ [][NextConfig]_vars

\* the int64 v holds exactly the natural number x
Holds(v, x) ==
    Len(x) <= Int64Limbs /\ v = Wrap64(x) /\ ~Negative64(v)

\* C17: when Load returns a configuration its lifetime is JWT_TTL_MINUTES
\* minutes if that value parses as a positive integer and 60 minutes if it is
\* unset, blank, non-numeric, zero or negative, so it is always positive; and
\* Load returns an error and no configuration when JWT_SECRET is empty after
\* trimming.
C17_LoadLifetime ==
    ret.fn = "Load"
    => LET minutes == Atoi(TrimSpace(arg.env.JWT_TTL_MINUTES))
       IN  /\ TrimSpace(arg.env.JWT_SECRET) = <<>>
              => (ret.err # "nil" /\ ret.cfg = ZeroConfig)
           /\ ret.err = "nil"
              => /\ ~Negative64(ret.cfg.JWTTTL)
                 /\ ret.cfg.JWTTTL # Wrap64(<<>>)
                 /\ IF minutes.err = "nil" /\ ~minutes.neg /\ minutes.mag # <<>>
                    THEN Holds(ret.cfg.JWTTTL, MinuteNanos(minutes.mag))
                    ELSE Holds(ret.cfg.JWTTTL, MinuteNanos(<<DefaultTTLMinutes>>))

====
